---- MODULE Spec2Model ----
(***************************************************************************)
(* The four demonstration MCP servers of examples/demo_servers:            *)
(* calculator_server.py, data_server.py, dynamic_server.py and             *)
(* time_server.py.  Each is an independent process; the variable `server`  *)
(* says which of them the behaviour is a run of.                           *)
(*                                                                         *)
(* Text is modelled structurally: an f-string becomes a record whose       *)
(* field msg is the literal part of the format and whose other fields are  *)
(* the values formatted into it.  Floats are integers (the modelled        *)
(* inputs keep every result integral).                                     *)
(***************************************************************************)
EXTENDS Integers, Sequences, FiniteSets, TLC

VARIABLES
    server,               \* which of the four scripts is running
    calculation_history,  \* calculator_server.py:18
    last_result,          \* calculator_server.py:19
    data_store,           \* data_server.py:20
    custom_tools,         \* dynamic_server.py:25 (the keys of self.custom_tools)
    tools,                \* dynamic_server.py: self.server._tools, name -> handler
    notifications,        \* notifications written to the client, not yet read
    requests,             \* the tool calls received so far, with their progress
    client_seen           \* what the client saw when it listed tools on a notification

vars == <<server, calculation_history, last_result, data_store, custom_tools,
          tools, notifications, requests, client_seen>>

(***************************************************************************)
(* Bounds of the model.                                                    *)
(***************************************************************************)
\* tool calls per run of the calculator, data and time servers
MaxCalls == 3
\* tool calls per run of the dynamic server (they overlap at its awaits)
MaxConcurrent == 2

Servers == {"calculator", "data", "dynamic", "time"}

Max(a, b) == IF a >= b THEN a ELSE b
Min(a, b) == IF a <= b THEN a ELSE b

(***************************************************************************)
(* Python helpers.                                                         *)
(***************************************************************************)
\* the empty dictionary {}
NoArguments == [k \in {} |-> 0]

\* dict.get(key, default)
Get(d, key, default) == IF key \in DOMAIN d THEN d[key] ELSE default

\* seq[start:] with Python's treatment of a negative or too large start
PySliceFrom(s, start) ==
    LET n == Len(s)
        i == IF start < 0 THEN Max(n + start, 0) ELSE Min(start, n)
    IN  SubSeq(s, i + 1, n)

\* seq[:stop]
PySliceTo(s, stop) ==
    LET n == Len(s)
        j == IF stop < 0 THEN Max(n + stop, 0) ELSE Min(stop, n)
    IN  SubSeq(s, 1, j)

(***************************************************************************)
(* Outcomes of a handler body, and of the handler.                         *)
(***************************************************************************)
\* the body reached `return [TextContent(type="text", text=...)]`
Ok(st, text) == [st |-> st, ok |-> TRUE, text |-> text]
\* the body raised: str(e) is `str`
Exc(st, exc, str) == [st |-> st, ok |-> FALSE, exc |-> exc, str |-> str]

TextContent(text) == [type |-> "text", text |-> text]
Returned(text) == [out |-> "return", content |-> <<TextContent(text)>>]
Raised(exc, str) == [out |-> "raise", exc |-> exc, str |-> str]

\* a mistake TryExcept could hold: the text is str(e) without the "Error: " prefix
TryExceptBare(r) ==
    IF r.ok THEN [st |-> r.st, reply |-> Returned(r.text)]
    ELSE [st |-> r.st,
          reply |-> Returned([msg |-> "{str(e)}", exc |-> r.exc, str |-> r.str])]

\* try: <body> except Exception as e: return [TextContent(text=f"Error: {str(e)}")]
TryExcept(r) ==
    IF r.ok THEN [st |-> r.st, reply |-> Returned(r.text)]
    ELSE [st |-> r.st,
          reply |-> Returned([msg |-> "Error: ", exc |-> r.exc, str |-> r.str])]

\* a handler with no try/except: the exception leaves the handler
NoTry(r) ==
    IF r.ok THEN [st |-> r.st, reply |-> Returned(r.text)]
    ELSE [st |-> r.st, reply |-> Raised(r.exc, r.str)]

UnknownTool(name) == [msg |-> "Unknown tool: ", name |-> name]
UnknownOperation(op) == [msg |-> "Unknown operation: ", operation |-> op]

(***************************************************************************)
(* calculator_server.py                                                    *)
(***************************************************************************)
CalcTools == {"calculate", "scientific_calc", "statistics", "unit_convert", "history"}

\* An expression is a sequence of tokens: a number, an operator, the word
\* "ans", or a character outside valid_chars.
Num(n) == [k |-> "num", n |-> n]
Tok(k) == [k |-> k, n |-> 0]

\* expression.lower().replace("ans", str(last_result)) when it holds "ans"
SubstituteAns(expression, last) ==
    [i \in 1..Len(expression) |->
        IF expression[i].k = "ans" THEN Num(last) ELSE expression[i]]

ValidChars == {"num", "+", "-", "*", "/"}

\* eval(expr) on the token sequence
EvalTokens(e) ==
    IF Len(e) = 1 /\ e[1].k = "num" THEN [ok |-> TRUE, v |-> e[1].n]
    ELSE IF Len(e) = 3 /\ e[1].k = "num" /\ e[3].k = "num" /\ e[2].k # "num" THEN
        CASE e[2].k = "+" -> [ok |-> TRUE, v |-> e[1].n + e[3].n]
          [] e[2].k = "-" -> [ok |-> TRUE, v |-> e[1].n - e[3].n]
          [] e[2].k = "*" -> [ok |-> TRUE, v |-> e[1].n * e[3].n]
          [] e[2].k = "/" ->
                IF e[3].n = 0 THEN [ok |-> FALSE, str |-> "division by zero"]
                ELSE [ok |-> TRUE, v |-> e[1].n \div e[3].n]
    ELSE [ok |-> FALSE, str |-> "invalid syntax"]

\* safe_eval: [ok, v] or the ValueError it raises
safe_eval(expression) ==
    IF \E i \in 1..Len(expression) : expression[i].k \notin ValidChars
    THEN [ok |-> FALSE, str |-> "Invalid characters in expression"]
    ELSE LET r == EvalTokens(expression)
         IN  IF r.ok THEN r ELSE [ok |-> FALSE, str |-> "Invalid expression"]

Calculate(st, arguments) ==
    IF "expression" \notin DOMAIN arguments THEN Exc(st, "KeyError", "expression")
    ELSE
      LET given == arguments["expression"]
          expression == IF \E i \in 1..Len(given) : given[i].k = "ans"
                        THEN SubstituteAns(given, st.last_result) ELSE given
          r == safe_eval(expression)
      IN  IF ~r.ok THEN Exc(st, "ValueError", r.str)
          ELSE LET history_entry == [expression |-> expression, result |-> r.v]
               IN  Ok([st EXCEPT !.last_result = r.v,
                                 !.calculation_history = Append(@, history_entry)],
                      [msg |-> "{history_entry}", entry |-> history_entry])

\* integer square root of a perfect square
Sqrt(v) == CHOOSE r \in 0..v : r * r = v

RECURSIVE Factorial(_)
Factorial(n) == IF n <= 1 THEN 1 ELSE n * Factorial(n - 1)

\* the math.* call of a scientific operation: [ok, v] or its ValueError
ScientificOp(operation, value, arguments) ==
    CASE operation = "sqrt" ->
            IF value < 0 THEN [ok |-> FALSE, str |-> "math domain error"]
            ELSE [ok |-> TRUE, v |-> Sqrt(value)]
      [] operation = "pow" ->
            [ok |-> TRUE, v |-> value ^ Get(arguments, "base", 2)]
      [] operation = "factorial" ->
            IF value < 0
            THEN [ok |-> FALSE, str |-> "factorial() not defined for negative values"]
            ELSE [ok |-> TRUE, v |-> Factorial(value)]

ScientificOperations == {"sqrt", "pow", "factorial"}

ScientificCalc(st, arguments) ==
    IF "operation" \notin DOMAIN arguments THEN Exc(st, "KeyError", "operation")
    ELSE IF "value" \notin DOMAIN arguments THEN Exc(st, "KeyError", "value")
    ELSE
      LET operation == arguments["operation"]
          value == arguments["value"]
      IN  IF operation \notin ScientificOperations
          THEN Ok(st, UnknownOperation(operation))
          ELSE LET r == ScientificOp(operation, value, arguments)
               IN  IF ~r.ok THEN Exc(st, "ValueError", r.str)
                   ELSE LET history_entry ==
                                [operation |-> operation, value |-> value, result |-> r.v]
                        IN  Ok([st EXCEPT !.last_result = r.v,
                                          !.calculation_history = Append(@, history_entry)],
                               [msg |-> "{history_entry}", entry |-> history_entry])

RECURSIVE Sum(_)
Sum(s) == IF s = <<>> THEN 0 ELSE Head(s) + Sum(Tail(s))

StatisticsOperations == {"mean", "sum"}

Statistics(st, arguments) ==
    IF "numbers" \notin DOMAIN arguments THEN Exc(st, "KeyError", "numbers")
    ELSE IF "operation" \notin DOMAIN arguments THEN Exc(st, "KeyError", "operation")
    ELSE
      LET numbers == arguments["numbers"]
          operation == arguments["operation"]
      IN  IF numbers = <<>> THEN Ok(st, [msg |-> "No numbers provided"])
          ELSE IF operation \notin StatisticsOperations
          THEN Ok(st, UnknownOperation(operation))
          ELSE LET result == IF operation = "mean"
                             THEN Sum(numbers) \div Len(numbers) ELSE Sum(numbers)
               IN  Ok(st, [msg |-> "{operation} of {numbers} = {result}",
                           operation |-> operation, numbers |-> numbers,
                           result |-> result])

Conversions == {<<"km", "miles">>, <<"miles", "km">>, <<"m", "ft">>, <<"ft", "m">>,
                <<"celsius", "fahrenheit">>, <<"fahrenheit", "celsius">>,
                <<"kg", "lbs">>, <<"lbs", "kg">>}

UnitConvert(st, arguments) ==
    IF "value" \notin DOMAIN arguments THEN Exc(st, "KeyError", "value")
    ELSE IF "from_unit" \notin DOMAIN arguments THEN Exc(st, "KeyError", "from_unit")
    ELSE IF "to_unit" \notin DOMAIN arguments THEN Exc(st, "KeyError", "to_unit")
    ELSE
      LET key == <<arguments["from_unit"], arguments["to_unit"]>>
      IN  IF key \in Conversions
          THEN Ok(st, [msg |-> "{value} {from_unit} = {result:.4f} {to_unit}",
                       value |-> arguments["value"], conversion |-> key])
          ELSE Ok(st, [msg |-> "Conversion from {from_unit} to {to_unit} not supported",
                       conversion |-> key])

DefaultHistoryLimit == 10

\* recent = calculation_history[-limit:] if calculation_history else []
Recent(history, limit) ==
    IF history # <<>> THEN PySliceFrom(history, 0 - limit) ELSE <<>>

History(st, arguments) ==
    LET limit == Get(arguments, "limit", DefaultHistoryLimit)
        recent == Recent(st.calculation_history, limit)
    IN  IF recent = <<>> THEN Ok(st, [msg |-> "No calculation history"])
        ELSE Ok(st, [msg |-> "Recent calculations:", recent |-> recent])

\* a mistake CalcUnknown could hold: the unknown call is recorded in the history
CalcUnknownRecorded(st, name) ==
    Ok([st EXCEPT !.calculation_history = Append(@, [unknown |-> name])],
       UnknownTool(name))

\* calculator_server.py:279-280
CalcUnknown(st, name) == Ok(st, UnknownTool(name))

CalcBody(st, name, arguments) ==
    CASE name = "calculate" -> Calculate(st, arguments)
      [] name = "scientific_calc" -> ScientificCalc(st, arguments)
      [] name = "statistics" -> Statistics(st, arguments)
      [] name = "unit_convert" -> UnitConvert(st, arguments)
      [] name = "history" -> History(st, arguments)
      [] OTHER -> CalcUnknown(st, name)

CalcCallTool(st, name, arguments) == TryExcept(CalcBody(st, name, arguments))

\* the argument dictionaries the model sends to the calculator
CalcCalls ==
    [name : {"calculate"},
     arguments : {[expression |-> <<Num(1), Tok("+"), Num(2)>>],
                  [expression |-> <<Tok("ans"), Tok("+"), Num(1)>>],
                  [expression |-> <<Num(2), Tok("/"), Num(0)>>],
                  [expression |-> <<Tok("x")>>]}]
    \cup [name : {"scientific_calc"},
          arguments : {[operation |-> "sqrt", value |-> 4],
                       [operation |-> "sqrt", value |-> 0 - 1],
                       [operation |-> "cbrt", value |-> 4]}]
    \cup [name : {"statistics"},
          arguments : {[numbers |-> <<>>, operation |-> "mean"],
                       [numbers |-> <<1, 3>>, operation |-> "mean"],
                       [numbers |-> <<1, 3>>, operation |-> "range"]}]
    \cup [name : {"unit_convert"},
          arguments : {[value |-> 1, from_unit |-> "km", to_unit |-> "miles"],
                       [value |-> 1, from_unit |-> "km", to_unit |-> "kg"]}]
    \cup [name : {"history"},
          arguments : {[limit |-> 0], [limit |-> 1], [limit |-> 2], [limit |-> 0 - 1]}]
    \cup [name : {"calculate", "history", "divide"}, arguments : {NoArguments}]

(***************************************************************************)
(* data_server.py                                                          *)
(*                                                                         *)
(* data_store maps a collection name to its list of items.  The random     *)
(* draws of a handler are its parameter rnd; the draws that decide which   *)
(* user and which product a transaction refers to are modelled in full,    *)
(* the random field values by one representative each.                     *)
(***************************************************************************)
DataTools == {"generate_users", "generate_products", "generate_transactions",
              "query_data", "aggregate_data", "clear_data"}

DefaultCount == 10
DefaultTransactionCount == 20
DefaultDaysBack == 30
DefaultQueryLimit == 10
DefaultFields == {"name", "email", "age", "city"}

\* data_store with collection `name` set to `items`
StorePut(store, name, items) ==
    [c \in DOMAIN store \cup {name} |-> IF c = name THEN items ELSE store[c]]

\* a mistake the deletion could hold: every collection is dropped
StoreDelAll(store, name) == [c \in {} |-> store[c]]

\* del data_store[name]
StoreDel(store, name) == [c \in DOMAIN store \ {name} |-> store[c]]

\* the indices i + 1 of for i in range(count)
Range(count) == 1..Max(count, 0)

\* data_server.py:225-254
GenerateUsers(st, arguments) ==
    LET count == Get(arguments, "count", DefaultCount)
        fields == Get(arguments, "include_fields", DefaultFields)
        user(i) == IF "name" \in fields THEN [id |-> i, name |-> "Alice Smith"]
                   ELSE [id |-> i]
        users == [i \in Range(count) |-> user(i)]
    IN  Ok([st EXCEPT !.data_store = StorePut(@, "users", users)],
           [msg |-> "Generated {count} users with fields: {fields}",
            count |-> count, fields |-> fields])

\* data_server.py:256-276
GenerateProducts(st, arguments) ==
    LET count == Get(arguments, "count", DefaultCount)
        price_range == Get(arguments, "price_range", [min |-> 10, max |-> 1000])
        product(i) == [id |-> i, name |-> "Pro Laptop", price |-> price_range["min"]]
        products == [i \in Range(count) |-> product(i)]
    IN  IF count >= 1 /\ "min" \notin DOMAIN price_range
        THEN Exc(st, "KeyError", "min")
        ELSE IF count >= 1 /\ "max" \notin DOMAIN price_range
        THEN Exc(st, "KeyError", "max")
        ELSE IF "min" \notin DOMAIN price_range
        THEN Exc([st EXCEPT !.data_store = StorePut(@, "products", <<>>)],
                 "KeyError", "min")
        ELSE IF "max" \notin DOMAIN price_range
        THEN Exc([st EXCEPT !.data_store = StorePut(@, "products", <<>>)],
                 "KeyError", "max")
        ELSE Ok([st EXCEPT !.data_store = StorePut(@, "products", products)],
                [msg |-> "Generated {count} products with prices ${min}-${max}",
                 count |-> count, price_range |-> price_range])

\* the draws random.choice(data_store["users"]) and
\* random.choice(data_store["products"]) of the count iterations
Picks(st, arguments) ==
    LET count == Get(arguments, "count", DefaultTransactionCount)
        store == st.data_store
        nu == IF "users" \in DOMAIN store THEN Len(store["users"]) ELSE 0
        np == IF "products" \in DOMAIN store THEN Len(store["products"]) ELSE 0
    IN  [1..Max(count, 0) -> [user : 1..nu, product : 1..np]]

\* a mistake NeedUsersAndProducts could hold: `and` in place of `or`
NeedUsersAndProductsBoth(store) ==
    "users" \notin DOMAIN store /\ "products" \notin DOMAIN store

\* "users" not in data_store or "products" not in data_store
NeedUsersAndProducts(store) ==
    "users" \notin DOMAIN store \/ "products" \notin DOMAIN store

\* a mistake Transaction could hold: "id": i in place of "id": i + 1
TransactionIdFromZero(store, i, pick) ==
    LET user == store["users"][pick.user]
        product == store["products"][pick.product]
    IN  [id |-> i - 1,
         user_id |-> user["id"],
         user_name |-> Get(user, "name", "Unknown"),
         product_id |-> product["id"],
         product_name |-> product["name"],
         price |-> product["price"]]

\* data_server.py:293-308: the i-th transaction, for the drawn user and product
Transaction(store, i, pick) ==
    LET user == store["users"][pick.user]
        product == store["products"][pick.product]
    IN  [id |-> i,
         user_id |-> user["id"],
         user_name |-> Get(user, "name", "Unknown"),
         product_id |-> product["id"],
         product_name |-> product["name"],
         price |-> product["price"]]

\* data_server.py:278-315
GenerateTransactions(st, arguments, rnd) ==
    LET count == Get(arguments, "count", DefaultTransactionCount)
        days_back == Get(arguments, "days_back", DefaultDaysBack)
        store == st.data_store
    IN  IF NeedUsersAndProducts(store)
        THEN Ok(st, [msg |-> "Please generate users and products first"])
        ELSE IF count >= 1 /\ "users" \notin DOMAIN store
        THEN Exc(st, "KeyError", "users")
        ELSE IF count >= 1 /\ store["users"] = <<>>
        THEN Exc(st, "IndexError", "Cannot choose from an empty sequence")
        ELSE IF count >= 1 /\ "products" \notin DOMAIN store
        THEN Exc(st, "KeyError", "products")
        ELSE IF count >= 1 /\ store["products"] = <<>>
        THEN Exc(st, "IndexError", "Cannot choose from an empty sequence")
        ELSE IF count >= 1 /\ days_back < 0
        THEN Exc(st, "ValueError", "empty range for randrange()")
        ELSE
          LET transaction(i) == Transaction(store, i, rnd[i])
              transactions == [i \in Range(count) |-> transaction(i)]
          IN  Ok([st EXCEPT !.data_store = StorePut(@, "transactions", transactions)],
                 [msg |-> "Generated {count} transactions over the last {days_back} days",
                  count |-> count, days_back |-> days_back])

CollectionNotFound(collection) ==
    [msg |-> "Collection '{collection}' not found", collection |-> collection]

\* item.get(field) != condition for every plain (non-dict) condition of the filter
apply_filter(item, filter_criteria) ==
    \A field \in DOMAIN filter_criteria :
        field \in DOMAIN item /\ item[field] = filter_criteria[field]

RECURSIVE Filter(_, _)
Filter(data, filter_criteria) ==
    IF data = <<>> THEN <<>>
    ELSE IF apply_filter(Head(data), filter_criteria)
         THEN <<Head(data)>> \o Filter(Tail(data), filter_criteria)
         ELSE Filter(Tail(data), filter_criteria)

\* data_server.py:317-339 (sort_by is not among the modelled arguments)
QueryData(st, arguments) ==
    IF "collection" \notin DOMAIN arguments THEN Exc(st, "KeyError", "collection")
    ELSE
      LET collection == arguments["collection"]
      IN  IF collection \notin DOMAIN st.data_store
          THEN Ok(st, CollectionNotFound(collection))
          ELSE
            LET all == st.data_store[collection]
                kept == IF "filter" \in DOMAIN arguments
                           /\ arguments["filter"] # NoArguments
                        THEN Filter(all, arguments["filter"]) ELSE all
                limit == Get(arguments, "limit", DefaultQueryLimit)
            IN  Ok(st, [msg |-> "json.dumps(data)", data |-> PySliceTo(kept, limit)])

RECURSIVE ValuesOf(_, _)
\* [item.get(field, 0) for item in data if field in item]
ValuesOf(data, field) ==
    IF data = <<>> THEN <<>>
    ELSE IF field \in DOMAIN Head(data)
         THEN <<Head(data)[field]>> \o ValuesOf(Tail(data), field)
         ELSE ValuesOf(Tail(data), field)

SeqRange(s) == {s[i] : i \in 1..Len(s)}

Aggregate(operation, values) ==
    IF values = <<>> THEN 0
    ELSE CASE operation = "sum" -> Sum(values)
           [] operation = "avg" -> Sum(values) \div Len(values)
           [] operation = "min" -> CHOOSE v \in SeqRange(values) :
                                       \A w \in SeqRange(values) : v <= w
           [] operation = "max" -> CHOOSE v \in SeqRange(values) :
                                       \A w \in SeqRange(values) : v >= w

\* {k: len(v) for k, v in groups.items()}: the items that lack the field are
\* counted under the key "Unknown"
GroupBy(data, group_field) ==
    LET keys == SeqRange(ValuesOf(data, group_field))
    IN  [groups |-> [k \in keys |->
                        Cardinality({i \in 1..Len(data) :
                            group_field \in DOMAIN data[i] /\ data[i][group_field] = k})],
         unknown |-> Cardinality({i \in 1..Len(data) : group_field \notin DOMAIN data[i]})]

\* data_server.py:341-386
AggregateData(st, arguments) ==
    IF "collection" \notin DOMAIN arguments THEN Exc(st, "KeyError", "collection")
    ELSE
      LET collection == arguments["collection"]
      IN  IF collection \notin DOMAIN st.data_store
          THEN Ok(st, CollectionNotFound(collection))
          ELSE IF "operation" \notin DOMAIN arguments
          THEN Exc(st, "KeyError", "operation")
          ELSE
            LET data == st.data_store[collection]
                operation == arguments["operation"]
                result(r) == Ok(st, [msg |-> "{operation} result: {result}",
                                     operation |-> operation, result |-> r])
            IN  IF operation = "count"
                THEN result([n |-> Len(data)])
                ELSE IF operation \in {"sum", "avg", "min", "max"}
                        /\ "field" \in DOMAIN arguments
                THEN result([n |-> Aggregate(operation, ValuesOf(data, arguments["field"]))])
                ELSE IF operation = "group_by"
                THEN IF "group_field" \notin DOMAIN arguments
                     THEN Ok(st, [msg |-> "group_field required for group_by"])
                     ELSE result(GroupBy(data, arguments["group_field"]))
                ELSE Ok(st, [msg |-> "Invalid operation or missing field"])

\* data_server.py:388-394
ClearData(st, arguments) ==
    IF "collection" \notin DOMAIN arguments THEN Exc(st, "KeyError", "collection")
    ELSE
      LET collection == arguments["collection"]
      IN  IF collection \in DOMAIN st.data_store
          THEN Ok([st EXCEPT !.data_store = StoreDel(@, collection)],
                  [msg |-> "Cleared collection '{collection}'",
                   collection |-> collection])
          ELSE Ok(st, CollectionNotFound(collection))

DataUnknown(st, name) == Ok(st, UnknownTool(name))

DataBody(st, name, arguments, rnd) ==
    CASE name = "generate_users" -> GenerateUsers(st, arguments)
      [] name = "generate_products" -> GenerateProducts(st, arguments)
      [] name = "generate_transactions" -> GenerateTransactions(st, arguments, rnd)
      [] name = "query_data" -> QueryData(st, arguments)
      [] name = "aggregate_data" -> AggregateData(st, arguments)
      [] name = "clear_data" -> ClearData(st, arguments)
      [] OTHER -> DataUnknown(st, name)

DataCallTool(st, name, arguments, rnd) ==
    TryExcept(DataBody(st, name, arguments, rnd))

\* the argument dictionaries the model sends to the data server
DataCalls ==
    [name : {"generate_users"},
     arguments : {[count |-> 0], [count |-> 1], [count |-> 2],
                  [count |-> 1, include_fields |-> {"email"}]}]
    \cup [name : {"generate_products"}, arguments : {[count |-> 0], [count |-> 1]}]
    \cup [name : {"generate_transactions"},
          arguments : {[count |-> 0], [count |-> 1], [count |-> 2],
                       [count |-> 1, days_back |-> 0 - 1]}]
    \cup [name : {"query_data"},
          arguments : {[collection |-> "users", filter |-> [id |-> 1]],
                       [collection |-> "orders"]}]
    \cup [name : {"aggregate_data"},
          arguments : {[collection |-> "users", operation |-> "count"],
                       [collection |-> "users", operation |-> "median"],
                       [collection |-> "users", operation |-> "group_by"]}]
    \cup [name : {"clear_data"},
          arguments : {[collection |-> "users"], [collection |-> "transactions"]}]
    \cup [name : {"clear_data", "drop_data"}, arguments : {NoArguments}]

\* the random draws a call can make in state st
DataDraws(st, call) ==
    IF call.name = "generate_transactions" /\ ~NeedUsersAndProducts(st.data_store)
    THEN LET p == Picks(st, call.arguments)
         IN  IF p = {} THEN {<<>>} ELSE p
    ELSE {<<>>}

\* f"data://{collection_name}": a URI is the sequence of its pieces, the piece
\* "data://" standing for an occurrence of that substring
Uri(collection_name) == <<"data://", collection_name>>

RECURSIVE Replace(_, _)
\* uri.replace(old, ""): every occurrence of old is dropped, the rest is joined
Replace(uri, old) ==
    IF uri = <<>> THEN ""
    ELSE IF Head(uri) = old THEN Replace(Tail(uri), old)
    ELSE Head(uri) \o Replace(Tail(uri), old)

\* Resource(uri=..., name=..., description=..., mimeType=...)
Resource(collection_name, items) ==
    [uri |-> Uri(collection_name),
     name |-> collection_name \o " Collection",
     description |-> [msg |-> "Collection with {len(items)} items", len |-> Len(items)],
     mimeType |-> "application/json"]

\* data_server.py:29-42; the resources are kept as a set, their order in the
\* list (the insertion order of data_store) is not modelled
list_resources(st) ==
    [st |-> st,
     reply |-> [out |-> "return",
                resources |-> {Resource(c, st.data_store[c]) : c \in DOMAIN st.data_store}]]

\* data_server.py:44-52; the handler returns a string, not a list of TextContent
read_resource(st, uri) ==
    LET collection_name == Replace(uri, "data://")
    IN  [st |-> st,
         reply |-> [out |-> "return",
                    str |-> IF collection_name \in DOMAIN st.data_store
                            THEN [msg |-> "json.dumps(data)",
                                  data |-> st.data_store[collection_name]]
                            ELSE CollectionNotFound(collection_name)]]

\* the resource requests the model sends to the data server
DataResourceCalls ==
    [name : {"list_resources"}, arguments : {NoArguments}]
    \cup [name : {"read_resource"},
          arguments : {[uri |-> Uri("users")], [uri |-> Uri("transactions")],
                       [uri |-> <<"users">>]}]

\* a request of the data server handled by the handler registered for it
DataHandle(st, handler, call, rnd) ==
    CASE handler = "call_tool" -> DataCallTool(st, call.name, call.arguments, rnd)
      [] handler = "list_resources" -> list_resources(st)
      [] handler = "read_resource" -> read_resource(st, call.arguments["uri"])

(***************************************************************************)
(* time_server.py                                                          *)
(*                                                                         *)
(* A date string "YYYY-MM-DD" is the record [y, m, d] of its numbers and   *)
(* a time string "HH:MM" the record [h, mi]; strptime rejects the ones     *)
(* that name no date or time.  Instants are minutes since                  *)
(* 0001-01-01 00:00 UTC, and a zone is its standard offset in minutes.     *)
(***************************************************************************)
TimeTools == {"get_current_time", "get_date", "time_until", "timezone_converter"}

TIMEZONES ==
    [UTC |-> "UTC", EST |-> "America/New_York", PST |-> "America/Los_Angeles",
     CST |-> "America/Chicago", MST |-> "America/Denver", GMT |-> "Europe/London",
     CET |-> "Europe/Paris", JST |-> "Asia/Tokyo", AEST |-> "Australia/Sydney"]

\* pytz.timezone(tz_name): the zone's offset from UTC
UtcOffset(tz_name) ==
    CASE tz_name = "UTC" -> 0
      [] tz_name = "America/New_York" -> 0 - 300
      [] tz_name = "America/Los_Angeles" -> 0 - 480
      [] tz_name = "America/Chicago" -> 0 - 360
      [] tz_name = "America/Denver" -> 0 - 420
      [] tz_name = "Europe/London" -> 0
      [] tz_name = "Europe/Paris" -> 60
      [] tz_name = "Asia/Tokyo" -> 540
      [] tz_name = "Australia/Sydney" -> 600

MinutesPerDay == 24 * 60

IsLeap(y) == (y % 4 = 0 /\ y % 100 # 0) \/ y % 400 = 0

DaysInMonth(y, m) ==
    IF m = 2 THEN (IF IsLeap(y) THEN 29 ELSE 28)
    ELSE IF m \in {4, 6, 9, 11} THEN 30 ELSE 31

RECURSIVE DaysBeforeMonth(_, _)
DaysBeforeMonth(y, m) ==
    IF m <= 1 THEN 0 ELSE DaysBeforeMonth(y, m - 1) + DaysInMonth(y, m - 1)

\* the days of the years 1 .. y-1
DaysBeforeYear(y) ==
    365 * (y - 1) + ((y - 1) \div 4) - ((y - 1) \div 100) + ((y - 1) \div 400)

\* datetime.strptime(f"{date} {time}", "%Y-%m-%d %H:%M"): [ok, v] or ValueError
Strptime(date, time) ==
    IF /\ date.y >= 1
       /\ date.m \in 1..12
       /\ date.d \in 1..DaysInMonth(date.y, date.m)
       /\ time.h \in 0..23
       /\ time.mi \in 0..59
    THEN [ok |-> TRUE,
          v |-> (DaysBeforeYear(date.y) + DaysBeforeMonth(date.y, date.m) + date.d - 1)
                    * MinutesPerDay + time.h * 60 + time.mi]
    ELSE [ok |-> FALSE, str |-> "time data does not match format"]

Midnight == [h |-> 0, mi |-> 0]

\* time_server.py:126-142
GetCurrentTime(st, arguments, now) ==
    LET tz_code == Get(arguments, "timezone", "UTC")
        tz_name == Get(TIMEZONES, tz_code, "UTC")
        format_type == Get(arguments, "format", "24h")
        local == now + UtcOffset(tz_name)
    IN  Ok(st, [msg |-> "Current time in {tz_code}: {time_str}", tz_code |-> tz_code,
                clock |-> IF format_type = "12h" THEN "%I:%M:%S %p" ELSE "%H:%M:%S",
                minute_of_day |-> local % MinutesPerDay])

\* time_server.py:144-162
GetDate(st, arguments, now) ==
    LET tz_code == Get(arguments, "timezone", "UTC")
        tz_name == Get(TIMEZONES, tz_code, "UTC")
        format_type == Get(arguments, "format", "iso")
        local == now + UtcOffset(tz_name)
    IN  Ok(st, [msg |-> "Current date in {tz_code}: {date_str}", tz_code |-> tz_code,
                style |-> CASE format_type = "us" -> "%m/%d/%Y"
                            [] format_type = "eu" -> "%d/%m/%Y"
                            [] OTHER -> "%Y-%m-%d",
                day |-> local \div MinutesPerDay])

\* time_server.py:164-192
TimeUntil(st, arguments, now) ==
    IF "target_date" \notin DOMAIN arguments THEN Exc(st, "KeyError", "target_date")
    ELSE
      LET target_date == arguments["target_date"]
          target_time == Get(arguments, "target_time", Midnight)
          tz_code == Get(arguments, "timezone", "UTC")
          tz_name == Get(TIMEZONES, tz_code, "UTC")
          parsed == Strptime(target_date, target_time)
      IN  IF ~parsed.ok THEN Exc(st, "ValueError", parsed.str)
          ELSE
            LET target == parsed.v - UtcOffset(tz_name)
                diff == target - now
            IN  IF diff < 0
                THEN Ok(st, [msg |-> "The target date {target_str} has already passed!",
                             target_date |-> target_date, target_time |-> target_time])
                ELSE Ok(st, [msg |-> "Time until {target_str} {tz_code}: {days} days, {hours} hours, {minutes} minutes",
                             target_date |-> target_date, target_time |-> target_time,
                             tz_code |-> tz_code,
                             days |-> diff \div MinutesPerDay,
                             hours |-> (diff % MinutesPerDay) \div 60,
                             minutes |-> diff % 60])

\* the date of the instant `now`, as strptime reads it back from f"{today}"
Today(now) == now \div MinutesPerDay

\* time_server.py:194-214
TimezoneConverter(st, arguments, now) ==
    IF "time" \notin DOMAIN arguments THEN Exc(st, "KeyError", "time")
    ELSE IF "from_timezone" \notin DOMAIN arguments
    THEN Exc(st, "KeyError", "from_timezone")
    ELSE IF "to_timezone" \notin DOMAIN arguments
    THEN Exc(st, "KeyError", "to_timezone")
    ELSE
      LET time_str == arguments["time"]
          from_tz == Get(TIMEZONES, arguments["from_timezone"], "UTC")
          to_tz == Get(TIMEZONES, arguments["to_timezone"], "UTC")
      IN  IF ~(time_str.h \in 0..23 /\ time_str.mi \in 0..59)
          THEN Exc(st, "ValueError", "time data does not match format")
          ELSE
            LET dt == Today(now) * MinutesPerDay + time_str.h * 60 + time_str.mi
                dt_to == dt - UtcOffset(from_tz) + UtcOffset(to_tz)
            IN  Ok(st, [msg |-> "{time_str} {from_timezone} = {dt_to} {to_timezone}",
                        time_str |-> time_str,
                        from_timezone |-> arguments["from_timezone"],
                        minute_of_day |-> dt_to % MinutesPerDay,
                        to_timezone |-> arguments["to_timezone"]])

TimeUnknown(st, name) == Ok(st, UnknownTool(name))

TimeBody(st, name, arguments, now) ==
    CASE name = "get_current_time" -> GetCurrentTime(st, arguments, now)
      [] name = "get_date" -> GetDate(st, arguments, now)
      [] name = "time_until" -> TimeUntil(st, arguments, now)
      [] name = "timezone_converter" -> TimezoneConverter(st, arguments, now)
      [] OTHER -> TimeUnknown(st, name)

\* time_server.py:122-220: the body is not inside a try
TimeCallTool(st, name, arguments, now) == NoTry(TimeBody(st, name, arguments, now))

\* the readings of the clock the model uses: 2026-01-02 10:30 UTC
Clock == {(DaysBeforeYear(2026) + 1) * MinutesPerDay + 630}

\* the argument dictionaries the model sends to the time server
TimeCalls ==
    [name : {"get_current_time"},
     arguments : {NoArguments, [timezone |-> "EST", format |-> "12h"],
                  [timezone |-> "XYZ"]}]
    \cup [name : {"get_date"}, arguments : {NoArguments, [timezone |-> "JST", format |-> "us"]}]
    \cup [name : {"time_until"},
          arguments : {[target_date |-> [y |-> 2026, m |-> 1, d |-> 3]],
                       [target_date |-> [y |-> 2026, m |-> 1, d |-> 1],
                        target_time |-> [h |-> 9, mi |-> 0]],
                       [target_date |-> [y |-> 2026, m |-> 2, d |-> 30]],
                       [target_date |-> [y |-> 2026, m |-> 1, d |-> 3],
                        target_time |-> [h |-> 24, mi |-> 0], timezone |-> "CET"],
                       NoArguments}]
    \cup [name : {"timezone_converter"},
          arguments : {[time |-> [h |-> 9, mi |-> 30], from_timezone |-> "EST",
                        to_timezone |-> "CET"],
                       [time |-> [h |-> 9, mi |-> 75], from_timezone |-> "EST",
                        to_timezone |-> "CET"],
                       [time |-> [h |-> 9, mi |-> 30]]}]
    \cup [name : {"get_time"}, arguments : {NoArguments}]

(***************************************************************************)
(* dynamic_server.py                                                       *)
(*                                                                         *)
(* custom_tools is the list of the keys of self.custom_tools, in insertion *)
(* order; tools is self.server._tools, which maps a tool name to the       *)
(* handler a call of that name runs: "base" for the function that          *)
(* _setup_base_tools registered under the name, "dynamic" for a            *)
(* dynamic_handler.  A handler runs from one await to the next in one      *)
(* step; pc is the await it is suspended at.  The timestamps of the        *)
(* replies are readings of the clock and are left out.                     *)
(***************************************************************************)
BaseTools == {"list_dynamic_tools", "add_tool", "remove_tool", "long_running_task",
              "trigger_resource_change", "get_server_info"}

BaseToolCount == 6
DefaultDuration == 5

NoReply == [out |-> "pending"]
Json(value) == [out |-> "return", json |-> value]

\* what one run of a handler between two awaits leaves behind
Segment(st, pc, i, reply, notes) ==
    [st |-> st, pc |-> pc, i |-> i, reply |-> reply, notes |-> notes]

\* self.custom_tools[name] = tool
CustomPut(custom, name) ==
    IF name \in SeqRange(custom) THEN custom ELSE Append(custom, name)

\* del self.custom_tools[name]
CustomDel(custom, name) == SelectSeq(custom, LAMBDA n : n # name)

\* self.server._tools[name] = tool
ToolsPut(table, name) ==
    [n \in DOMAIN table \cup {name} |-> IF n = name THEN "dynamic" ELSE table[n]]

\* del self.server._tools[name]
ToolsDel(table, name) == [n \in DOMAIN table \ {name} |-> table[n]]

\* dynamic_server.py:32-39
ListDynamicTools(st, req) ==
    Segment(st, "done", 0,
            Json([dynamic_tools |-> st.custom_tools, count |-> Len(st.custom_tools)]),
            <<>>)

\* a mistake AddTool could hold: the registry is updated after the await, so the
\* check and the update are no longer one step
AddToolCheckThenAwait(st, req) ==
    LET name == req.call.arguments["name"]
    IN  CASE req.pc = "start" ->
                IF name \in SeqRange(st.custom_tools)
                THEN Segment(st, "done", 0,
                             Json([error |-> "Tool '{name}' already exists",
                                   tool |-> name]), <<>>)
                ELSE Segment(st, "send", 0, NoReply, <<>>)
          [] req.pc = "send" ->
                Segment(st, "resume", 0, NoReply, <<"tools_changed">>)
          [] req.pc = "resume" ->
                Segment([st EXCEPT !.custom_tools = CustomPut(@, name),
                                   !.tools = ToolsPut(@, name)],
                        "done", 0,
                        Json([success |-> TRUE, tool |-> name,
                              message |-> "Tool '{name}' added successfully"]), <<>>)

\* a mistake AddTool could hold: no check that the name is already there
AddToolUnchecked(st, req) ==
    LET name == req.call.arguments["name"]
    IN  CASE req.pc = "start" ->
                Segment([st EXCEPT !.custom_tools = CustomPut(@, name),
                                   !.tools = ToolsPut(@, name)],
                        "send", 0, NoReply, <<>>)
          [] req.pc = "send" ->
                Segment(st, "resume", 0, NoReply, <<"tools_changed">>)
          [] req.pc = "resume" ->
                Segment(st, "done", 0,
                        Json([success |-> TRUE, tool |-> name,
                              message |-> "Tool '{name}' added successfully"]), <<>>)

\* dynamic_server.py:42-79
AddTool(st, req) ==
    LET name == req.call.arguments["name"]
    IN  CASE req.pc = "start" ->
                IF name \in SeqRange(st.custom_tools)
                THEN Segment(st, "done", 0,
                             Json([error |-> "Tool '{name}' already exists",
                                   tool |-> name]), <<>>)
                ELSE Segment([st EXCEPT !.custom_tools = CustomPut(@, name),
                                        !.tools = ToolsPut(@, name)],
                             "send", 0, NoReply, <<>>)
          [] req.pc = "send" ->
                Segment(st, "resume", 0, NoReply, <<"tools_changed">>)
          [] req.pc = "resume" ->
                Segment(st, "done", 0,
                        Json([success |-> TRUE, tool |-> name,
                              message |-> "Tool '{name}' added successfully"]), <<>>)

\* a mistake RemoveTool could hold: the notification is sent before the removal
RemoveToolNotifyFirst(st, req) ==
    LET name == req.call.arguments["name"]
    IN  CASE req.pc = "start" ->
                IF name \notin SeqRange(st.custom_tools)
                THEN Segment(st, "done", 0,
                             Json([error |-> "Tool '{name}' not found or is not removable",
                                   tool |-> name]), <<>>)
                ELSE Segment(st, "send", 0, NoReply, <<>>)
          [] req.pc = "send" ->
                Segment(st, "resume", 0, NoReply, <<"tools_changed">>)
          [] req.pc = "resume" ->
                Segment([st EXCEPT !.custom_tools = CustomDel(@, name),
                                   !.tools = ToolsDel(@, name)],
                        "done", 0,
                        Json([success |-> TRUE, tool |-> name,
                              message |-> "Tool '{name}' removed successfully"]), <<>>)

\* dynamic_server.py:82-98
RemoveTool(st, req) ==
    LET name == req.call.arguments["name"]
    IN  CASE req.pc = "start" ->
                IF name \notin SeqRange(st.custom_tools)
                THEN Segment(st, "done", 0,
                             Json([error |-> "Tool '{name}' not found or is not removable",
                                   tool |-> name]), <<>>)
                ELSE Segment([st EXCEPT !.custom_tools = CustomDel(@, name),
                                        !.tools = ToolsDel(@, name)],
                             "send", 0, NoReply, <<>>)
          [] req.pc = "send" ->
                Segment(st, "resume", 0, NoReply, <<"tools_changed">>)
          [] req.pc = "resume" ->
                Segment(st, "done", 0,
                        Json([success |-> TRUE, tool |-> name,
                              message |-> "Tool '{name}' removed successfully"]), <<>>)

\* dynamic_server.py:101-119
LongRunningTask(st, req) ==
    LET duration == Get(req.call.arguments, "duration", DefaultDuration)
        with_progress == Get(req.call.arguments, "with_progress", TRUE)
        completed == Json([completed |-> TRUE, duration |-> duration])
    IN  CASE req.pc = "start" ->
                IF ~with_progress THEN Segment(st, "sleep", 0, NoReply, <<>>)
                ELSE IF duration >= 1 THEN Segment(st, "send", 0, NoReply, <<>>)
                ELSE Segment(st, "done", 0, completed, <<>>)
          [] req.pc = "send" ->
                Segment(st, "sleep", req.i, NoReply, <<"progress">>)
          [] req.pc = "sleep" ->
                IF with_progress /\ req.i + 1 < duration
                THEN Segment(st, "send", req.i + 1, NoReply, <<>>)
                ELSE Segment(st, "done", req.i, completed, <<>>)

\* dynamic_server.py:122-130
TriggerResourceChange(st, req) ==
    CASE req.pc = "start" -> Segment(st, "send", 0, NoReply, <<>>)
      [] req.pc = "send" -> Segment(st, "resume", 0, NoReply, <<"resources_changed">>)
      [] req.pc = "resume" ->
            Segment(st, "done", 0,
                    Json([success |-> TRUE,
                          message |-> "Resource change notification sent"]), <<>>)

\* dynamic_server.py:133-150
GetServerInfo(st, req) ==
    Segment(st, "done", 0,
            Json([name |-> "dynamic-server",
                  base_tools |-> BaseToolCount,
                  dynamic_tools |-> Len(st.custom_tools)]), <<>>)

\* dynamic_server.py:48-54
DynamicHandler(st, req) ==
    Segment(st, "done", 0,
            Json([tool |-> req.call.name, input |-> req.call.arguments]), <<>>)

\* the next segment of the handler that request req is running
DynStep(st, req) ==
    IF req.handler = "dynamic" THEN DynamicHandler(st, req)
    ELSE CASE req.call.name = "list_dynamic_tools" -> ListDynamicTools(st, req)
           [] req.call.name = "add_tool" -> AddTool(st, req)
           [] req.call.name = "remove_tool" -> RemoveTool(st, req)
           [] req.call.name = "long_running_task" -> LongRunningTask(st, req)
           [] req.call.name = "trigger_resource_change" -> TriggerResourceChange(st, req)
           [] req.call.name = "get_server_info" -> GetServerInfo(st, req)

\* the tool calls the model sends to the dynamic server
DynCalls ==
    [name : {"add_tool", "remove_tool"},
     arguments : {[name |-> "alpha"], [name |-> "add_tool"]}]
    \cup [name : {"list_dynamic_tools", "get_server_info", "trigger_resource_change"},
          arguments : {NoArguments}]
    \cup [name : {"long_running_task"},
          arguments : {[duration |-> 2], [duration |-> 1, with_progress |-> FALSE]}]
    \cup [name : {"alpha"}, arguments : {[data |-> "x"]}]

(***************************************************************************)
(* The state machine.                                                      *)
(***************************************************************************)
EmptyStore == [c \in {} |-> <<>>]

\* the module-level state of the four scripts after import / construction
InitialState ==
    [calculation_history |-> <<>>,
     last_result |-> 0,
     data_store |-> EmptyStore,
     custom_tools |-> <<>>,
     tools |-> [n \in BaseTools |-> "base"]]

GlobalState ==
    [calculation_history |-> calculation_history,
     last_result |-> last_result,
     data_store |-> data_store,
     custom_tools |-> custom_tools,
     tools |-> tools]

SetGlobalState(st) ==
    /\ calculation_history' = st.calculation_history
    /\ last_result' = st.last_result
    /\ data_store' = st.data_store
    /\ custom_tools' = st.custom_tools
    /\ tools' = st.tools

Init ==
    /\ server \in Servers
    /\ calculation_history = InitialState.calculation_history
    /\ last_result = InitialState.last_result
    /\ data_store = InitialState.data_store
    /\ custom_tools = InitialState.custom_tools
    /\ tools = InitialState.tools
    /\ notifications = <<>>
    /\ requests = <<>>
    /\ client_seen = <<>>

\* a request as `requests` records it
Request(call, env, handler, pc, i, reply, at) ==
    [call |-> call, env |-> env, handler |-> handler, pc |-> pc, i |-> i,
     reply |-> reply, at |-> at]

\* a call of the calculator's call_tool: it has no await, so it is one step
CalculatorCall ==
    /\ server = "calculator"
    /\ Len(requests) < MaxCalls
    /\ \E call \in CalcCalls :
        LET r == CalcCallTool(GlobalState, call.name, call.arguments)
        IN  /\ SetGlobalState(r.st)
            /\ requests' = Append(requests,
                   Request(call, <<>>, "call_tool", "done", 0, r.reply, 0))
    /\ UNCHANGED <<server, notifications, client_seen>>

\* a call of the data server's call_tool: no await, one step
DataCall ==
    /\ server = "data"
    /\ Len(requests) < MaxCalls
    /\ \E call \in DataCalls :
        \E rnd \in DataDraws(GlobalState, call) :
            LET r == DataCallTool(GlobalState, call.name, call.arguments, rnd)
            IN  /\ SetGlobalState(r.st)
                /\ requests' = Append(requests,
                       Request(call, rnd, "call_tool", "done", 0, r.reply, 0))
    /\ UNCHANGED <<server, notifications, client_seen>>

\* a resources/list or resources/read request of the data server: neither
\* handler has an await, so each is one step
DataResourceCall ==
    /\ server = "data"
    /\ Len(requests) < MaxCalls
    /\ \E call \in DataResourceCalls :
        LET r == DataHandle(GlobalState, call.name, call, <<>>)
        IN  /\ SetGlobalState(r.st)
            /\ requests' = Append(requests,
                   Request(call, <<>>, call.name, "done", 0, r.reply, 0))
    /\ UNCHANGED <<server, notifications, client_seen>>

\* a call of the time server's call_tool: no await, one step
TimeCall ==
    /\ server = "time"
    /\ Len(requests) < MaxCalls
    /\ \E call \in TimeCalls :
        \E now \in Clock :
            LET r == TimeCallTool(GlobalState, call.name, call.arguments, now)
            IN  /\ SetGlobalState(r.st)
                /\ requests' = Append(requests,
                       Request(call, now, "call_tool", "done", 0, r.reply, 0))
    /\ UNCHANGED <<server, notifications, client_seen>>

\* the number of registry updates made so far
Commits == Cardinality({k \in 1..Len(requests) : requests[k].at > 0})

\* the notifications of a segment, tagged with the request that sent them
Notes(k, kinds) == [j \in 1..Len(kinds) |-> [kind |-> kinds[j], req |-> k]]

\* request k runs its next segment
RunSegment(k, req) ==
    LET r == DynStep(GlobalState, req)
        updated == r.st # GlobalState
        next == Request(req.call, req.env, req.handler, r.pc, r.i, r.reply,
                        IF updated THEN Commits + 1 ELSE req.at)
    IN  /\ SetGlobalState(r.st)
        /\ notifications' = notifications \o Notes(k, r.notes)
        /\ requests' = [j \in 1..Max(k, Len(requests)) |->
                            IF j = k THEN next ELSE requests[j]]

\* the dynamic server receives a tool call: the library looks the name up in
\* _tools and starts its handler, which runs to its first await
DynamicCall ==
    /\ server = "dynamic"
    /\ Len(requests) < MaxConcurrent
    /\ \E call \in DynCalls :
        /\ call.name \in DOMAIN tools
        /\ RunSegment(Len(requests) + 1,
                      Request(call, <<>>, tools[call.name], "start", 0, NoReply, 0))
    /\ UNCHANGED <<server, client_seen>>

\* a suspended handler of the dynamic server is resumed and runs to its next await
DynamicResume ==
    /\ server = "dynamic"
    /\ \E k \in 1..Len(requests) :
        /\ requests[k].pc # "done"
        /\ RunSegment(k, requests[k])
    /\ UNCHANGED <<server, client_seen>>

\* the client reads a tools-changed notification and lists the tools
ClientListTools ==
    /\ notifications # <<>>
    /\ Head(notifications).kind = "tools_changed"
    /\ client_seen' = Append(client_seen,
           [note |-> Head(notifications), listed |-> DOMAIN tools,
            commits |-> Commits])
    /\ notifications' = Tail(notifications)
    /\ UNCHANGED <<server, calculation_history, last_result, data_store,
                   custom_tools, tools, requests>>

\* the client reads any other notification
ClientRead ==
    /\ notifications # <<>>
    /\ Head(notifications).kind # "tools_changed"
    /\ notifications' = Tail(notifications)
    /\ UNCHANGED <<server, calculation_history, last_result, data_store,
                   custom_tools, tools, requests, client_seen>>

Next ==
    \/ CalculatorCall
    \/ DataCall
    \/ DataResourceCall
    \/ TimeCall
    \/ DynamicCall
    \/ DynamicResume
    \/ ClientListTools
    \/ ClientRead

Spec == Init /\ [][Next]_vars

(***************************************************************************)
(* Running calls one at a time.                                            *)
(***************************************************************************)
RECURSIVE DynRun(_, _)
\* a handler of the dynamic server run from its start to its return, alone
DynRun(st, req) ==
    LET r == DynStep(st, req)
    IN  IF r.pc = "done" THEN [st |-> r.st, reply |-> r.reply]
        ELSE DynRun(r.st, Request(req.call, req.env, req.handler, r.pc, r.i,
                                  r.reply, req.at))

\* one call handled alone, from state st
HandleAlone(srv, st, req) ==
    CASE srv = "calculator" -> CalcCallTool(st, req.call.name, req.call.arguments)
      [] srv = "data" -> DataHandle(st, req.handler, req.call, req.env)
      [] srv = "time" -> TimeCallTool(st, req.call.name, req.call.arguments, req.env)
      [] srv = "dynamic" ->
            IF req.call.name \in DOMAIN st.tools
            THEN DynRun(st, Request(req.call, req.env, st.tools[req.call.name],
                                    "start", 0, NoReply, 0))
            ELSE [st |-> st, reply |-> [out |-> "no such tool"]]

RECURSIVE SeqRun(_, _, _)
\* the calls `reqs` handled one after the other: the final state and the replies
SeqRun(srv, st, reqs) ==
    IF reqs = <<>> THEN [st |-> st, replies |-> <<>>]
    ELSE LET first == HandleAlone(srv, st, Head(reqs))
             rest == SeqRun(srv, first.st, Tail(reqs))
         IN  [st |-> rest.st, replies |-> <<first.reply>> \o rest.replies]

AllDone == \A k \in 1..Len(requests) : requests[k].pc = "done"

\* the tools each list_tools announces
ListedTools(srv) ==
    CASE srv = "calculator" -> CalcTools
      [] srv = "data" -> DataTools
      [] srv = "time" -> TimeTools
      [] srv = "dynamic" -> DOMAIN tools

\* the step receives a new call
Received == Len(requests') = Len(requests) + 1
\* the request the step received, as the step leaves it
New == requests'[Len(requests')]

IsText(reply) == reply.out = "return" /\ "content" \in DOMAIN reply
TextOf(reply) == reply.content[1].text

(***************************************************************************)
(* C1. In every server, no tool call ends with an exception leaving the    *)
(* handler: whatever the name and the arguments, the handler returns.      *)
(***************************************************************************)
C1_NoExceptionLeavesHandler ==
    \A k \in 1..Len(requests) : requests[k].reply.out # "raise"

(***************************************************************************)
(* C2. Once every call issued to a server has returned, the replies and    *)
(* the process-global state are those of the same calls handled one at a   *)
(* time in some order.                                                     *)
(***************************************************************************)
C2_SequentialOrderExists ==
    (requests # <<>> /\ AllDone) =>
        \E p \in Permutations(1..Len(requests)) :
            LET run == SeqRun(server, InitialState,
                              [k \in 1..Len(requests) |-> requests[p[k]]])
            IN  /\ run.st = GlobalState
                /\ \A k \in 1..Len(requests) : run.replies[k] = requests[p[k]].reply

\* two calls of the dynamic server that overlapped: the second one received sent
\* its notification before the first one did, and both have returned
C2_Witness ==
    /\ server = "dynamic"
    /\ Len(requests) = 2
    /\ AllDone
    /\ requests[1].at > 0
    /\ requests[2].at > 0
    /\ \E n \in 1..Len(notifications) : \E m \in 1..Len(notifications) :
          n < m /\ notifications[n].req = 2 /\ notifications[m].req = 1

(***************************************************************************)
(* C3. In the calculator, data and time servers a call whose name is not   *)
(* a listed tool returns exactly one text, "Unknown tool: <name>", and     *)
(* leaves calculation_history, last_result and data_store unchanged.       *)
(***************************************************************************)
C3_UnknownToolStep ==
    (/\ server \in {"calculator", "data", "time"}
     /\ Received
     /\ New.handler = "call_tool"
     /\ New.call.name \notin ListedTools(server))
    => /\ New.reply = Returned(UnknownTool(New.call.name))
       /\ UNCHANGED <<calculation_history, last_result, data_store>>

C3_UnknownTool == [][C3_UnknownToolStep]_vars

\* an unknown tool was called after a calculation had been recorded
C3_Witness ==
    /\ server = "calculator"
    /\ calculation_history # <<>>
    /\ Len(requests) >= 2
    /\ requests[Len(requests)].call.name \notin CalcTools
    /\ requests[Len(requests)].reply
         = Returned(UnknownTool(requests[Len(requests)].call.name))

(***************************************************************************)
(* C4. The kinds of response that are not the successful result of the     *)
(* requested operation.                                                    *)
(***************************************************************************)
\* the formats of the successful results
SuccessFormats ==
    {"{history_entry}", "{operation} of {numbers} = {result}",
     "{value} {from_unit} = {result:.4f} {to_unit}", "Recent calculations:",
     "No calculation history",
     "Generated {count} users with fields: {fields}",
     "Generated {count} products with prices ${min}-${max}",
     "Generated {count} transactions over the last {days_back} days",
     "json.dumps(data)", "{operation} result: {result}",
     "Cleared collection '{collection}'",
     "Current time in {tz_code}: {time_str}", "Current date in {tz_code}: {date_str}",
     "Time until {target_str} {tz_code}: {days} days, {hours} hours, {minutes} minutes",
     "{time_str} {from_timezone} = {dt_to} {to_timezone}"}

\* the kind of a response that is not a successful result, "" for one that is
FailureKind(reply) ==
    IF IsText(reply)
    THEN IF TextOf(reply).msg \in SuccessFormats THEN "" ELSE TextOf(reply).msg
    ELSE IF reply.out = "return" /\ "str" \in DOMAIN reply
    THEN IF reply.str.msg \in SuccessFormats THEN "" ELSE reply.str.msg
    ELSE IF reply.out = "return" /\ "json" \in DOMAIN reply
            /\ "error" \in DOMAIN reply.json
    THEN reply.json.error
    ELSE ""

ThreeKinds == {"Unknown tool: ", "Unknown operation: ", "Error: "}

\* the claim as stated: only the three kinds occur
C4_OnlyThreeKinds ==
    \A k \in 1..Len(requests) : FailureKind(requests[k].reply) \in ThreeKinds \cup {""}

OtherKinds ==
    {"No numbers provided", "Conversion from {from_unit} to {to_unit} not supported",
     "Please generate users and products first",
     "Collection '{collection}' not found", "group_field required for group_by",
     "Invalid operation or missing field",
     "The target date {target_str} has already passed!",
     "Tool '{name}' already exists", "Tool '{name}' not found or is not removable"}

\* C4 as amended: every response that is not the successful result is of one of
\* the three kinds or of one of the handler-specific kinds OtherKinds
C4_FailureKinds ==
    \A k \in 1..Len(requests) :
        FailureKind(requests[k].reply) \in ThreeKinds \cup OtherKinds \cup {""}

\* a run that produced a generic "Error: ..." and a handler-specific failure
C4_Witness ==
    /\ \E k \in 1..Len(requests) : FailureKind(requests[k].reply) = "Error: "
    /\ \E k \in 1..Len(requests) : FailureKind(requests[k].reply) \in OtherKinds

(***************************************************************************)
(* C5. After any add_tool and remove_tool calls the six base tools are     *)
(* still registered with their original handlers.                          *)
(***************************************************************************)
C5_BaseToolsStay ==
    server = "dynamic" =>
        \A n \in BaseTools : n \in DOMAIN tools /\ tools[n] = "base"

(***************************************************************************)
(* C6. history with argument limit shows at most limit entries, the most   *)
(* recent ones in the order they were computed, and answers "No            *)
(* calculation history" exactly when there is no entry to show.            *)
(***************************************************************************)
\* the entries a reply of history shows
Shown(reply) ==
    IF TextOf(reply).msg = "Recent calculations:" THEN TextOf(reply).recent ELSE <<>>

\* the most recent n entries of h, oldest first
MostRecent(h, n) == SubSeq(h, Len(h) - Min(Max(n, 0), Len(h)) + 1, Len(h))

\* history changes nothing, so the history it read is the one the step leaves
C6_HistoryStep ==
    (/\ server = "calculator"
     /\ Received
     /\ New.call.name = "history"
     /\ "limit" \in DOMAIN New.call.arguments
     /\ New.call.arguments["limit"] >= 0)
    => LET limit == New.call.arguments["limit"]
           want == MostRecent(calculation_history, limit)
       IN  /\ IsText(New.reply)
           /\ Len(Shown(New.reply)) <= limit
           /\ Shown(New.reply) = want
           /\ (TextOf(New.reply).msg = "No calculation history") <=> (want = <<>>)

C6_HistoryLimit == [][C6_HistoryStep]_vars

(***************************************************************************)
(* C7. add_tool with the name of a tool that was added dynamically returns *)
(* the error "Tool '<name>' already exists", leaves custom_tools and the   *)
(* tool table unchanged and sends no notification; remove_tool with a name *)
(* that is no dynamically added tool returns an error, changes nothing and *)
(* sends no notification.  (The handler returns in the step that starts    *)
(* it, so it sends nothing later either.)                                  *)
(***************************************************************************)
C7_RejectedStep ==
    (/\ server = "dynamic"
     /\ Received
     /\ New.handler = "base"
     /\ \/ /\ New.call.name = "add_tool"
           /\ New.call.arguments["name"] \in SeqRange(custom_tools)
        \/ /\ New.call.name = "remove_tool"
           /\ New.call.arguments["name"] \notin SeqRange(custom_tools))
    => /\ New.pc = "done"
       /\ New.reply.out = "return"
       /\ "error" \in DOMAIN New.reply.json
       /\ New.call.name = "add_tool" =>
              New.reply.json.error = "Tool '{name}' already exists"
              /\ New.reply.json.tool = New.call.arguments["name"]
       /\ UNCHANGED <<custom_tools, tools, notifications>>

C7_Rejected == [][C7_RejectedStep]_vars

\* add_tool was called twice with one name: the second call was rejected
C7_Witness ==
    /\ server = "dynamic"
    /\ Len(requests) = 2
    /\ requests[1].call = requests[2].call
    /\ requests[1].call.name = "add_tool"
    /\ requests[1].at > 0
    /\ requests[2].pc = "done"
    /\ requests[2].at = 0
    /\ "error" \in DOMAIN requests[2].reply.json

(***************************************************************************)
(* C8. The tools-changed notification of add_tool and remove_tool.         *)
(***************************************************************************)
IsRegistryCall(req) ==
    req.handler = "base" /\ req.call.name \in {"add_tool", "remove_tool"}

Succeeded(req) ==
    req.pc = "done" /\ req.reply.out = "return" /\ "success" \in DOMAIN req.reply.json

\* the tools-changed notifications request k has sent, read by the client or not
ToolsChangedSent(k) ==
    Cardinality({n \in 1..Len(notifications) :
                    notifications[n] = [kind |-> "tools_changed", req |-> k]})
    + Cardinality({n \in 1..Len(client_seen) : client_seen[n].note.req = k})

\* what the client sees is what the notification announced
SeesChange(obs) ==
    LET req == requests[obs.note.req]
        name == req.call.arguments["name"]
    IN  IF req.call.name = "add_tool" THEN name \in obs.listed
        ELSE name \notin obs.listed

\* the claim as stated: a client that lists the tools on the notification sees
\* the added tool, or no longer sees the removed one
C8_ClientSeesChange ==
    \A n \in 1..Len(client_seen) : SeesChange(client_seen[n])

\* another add_tool or remove_tool of the same name updated the registry after
\* the request of the notification did and before the client listed the tools
Superseded(obs) ==
    \E j \in 1..Len(requests) :
        /\ IsRegistryCall(requests[j])
        /\ requests[j].call.arguments = requests[obs.note.req].call.arguments
        /\ requests[j].at > requests[obs.note.req].at
        /\ requests[j].at <= obs.commits

\* C8 as amended: every successful add_tool and remove_tool sends exactly one
\* tools-changed notification, after its update of the registry and before its
\* reply; a client that lists the tools on the notification sees the change
\* unless a later add_tool or remove_tool of the same name was applied first
C8_NotificationOrder ==
    /\ \A k \in 1..Len(requests) :
          IsRegistryCall(requests[k]) =>
              /\ ToolsChangedSent(k) <= 1
              /\ ToolsChangedSent(k) = 1 => requests[k].at > 0
              /\ Succeeded(requests[k]) => ToolsChangedSent(k) = 1
    /\ \A n \in 1..Len(client_seen) :
          ~Superseded(client_seen[n]) => SeesChange(client_seen[n])

\* a successful add_tool has returned and the client, listing the tools on its
\* notification, saw the tool
C8_Witness ==
    \E n \in 1..Len(client_seen) :
        LET req == requests[client_seen[n].note.req]
        IN  /\ req.call.name = "add_tool"
            /\ Succeeded(req)
            /\ req.call.arguments["name"] \in client_seen[n].listed

(***************************************************************************)
(* C9. generate_transactions while "users" or "products" is absent from    *)
(* data_store returns "Please generate users and products first" and       *)
(* leaves data_store unchanged.                                            *)
(***************************************************************************)
C9_NeedsBothStep ==
    (/\ server = "data"
     /\ Received
     /\ New.call.name = "generate_transactions"
     /\ ("users" \notin DOMAIN data_store \/ "products" \notin DOMAIN data_store))
    => /\ New.reply = Returned([msg |-> "Please generate users and products first"])
       /\ UNCHANGED data_store

C9_NeedsBoth == [][C9_NeedsBothStep]_vars

\* transactions were asked for when only the users had been generated
C9_Witness ==
    /\ server = "data"
    /\ DOMAIN data_store = {"users"}
    /\ Len(requests) >= 2
    /\ requests[Len(requests)].call.name = "generate_transactions"
    /\ requests[Len(requests)].call.arguments["count"] >= 1
    /\ requests[Len(requests)].reply
         = Returned([msg |-> "Please generate users and products first"])

(***************************************************************************)
(* C10. With "users" and "products" both in data_store,                    *)
(* generate_transactions with count n replies "Generated n transactions    *)
(* ..." and stores exactly n transactions with ids 1..n, each referring to *)
(* a user of "users" and a product of "products".                          *)
(***************************************************************************)
Ids(items) == {items[i]["id"] : i \in 1..Len(items)}

\* the step stored n transactions that refer to the users and products
StoredTransactions(n) ==
    /\ IsText(New.reply)
    /\ TextOf(New.reply).msg
         = "Generated {count} transactions over the last {days_back} days"
    /\ TextOf(New.reply).count = n
    /\ "transactions" \in DOMAIN data_store'
    /\ Len(data_store'["transactions"]) = n
    /\ \A i \in 1..n :
          /\ data_store'["transactions"][i]["id"] = i
          /\ data_store'["transactions"][i]["user_id"] \in Ids(data_store["users"])
          /\ data_store'["transactions"][i]["product_id"] \in Ids(data_store["products"])

GeneratesWithBoth ==
    /\ server = "data"
    /\ Received
    /\ New.call.name = "generate_transactions"
    /\ "count" \in DOMAIN New.call.arguments
    /\ New.call.arguments["count"] >= 0
    /\ "users" \in DOMAIN data_store
    /\ "products" \in DOMAIN data_store

\* the claim as stated
C10_StoresNStep == GeneratesWithBoth => StoredTransactions(New.call.arguments["count"])

CanDraw ==
    /\ data_store["users"] # <<>>
    /\ data_store["products"] # <<>>
    /\ Get(New.call.arguments, "days_back", DefaultDaysBack) >= 0

\* C10 as amended: with both collections in data_store, generate_transactions
\* with count n does as claimed when n = 0, or when n >= 1, both collections are
\* non-empty and days_back >= 0; with n >= 1 and an empty collection or a
\* negative days_back it replies "Error: ..." and leaves data_store unchanged
C10_StoresNWhenDrawableStep ==
    GeneratesWithBoth =>
        LET n == New.call.arguments["count"]
        IN  IF n = 0 \/ CanDraw THEN StoredTransactions(n)
            ELSE /\ IsText(New.reply)
                 /\ TextOf(New.reply).msg = "Error: "
                 /\ UNCHANGED data_store

Generators == {"generate_users", "generate_products", "generate_transactions"}

\* data_store as the first j requests of the data server left it
StoreAfter(j) == SeqRun("data", InitialState, SubSeq(requests, 1, j)).st.data_store

\* request k is a clear_data of collection n, which existed when it was received
ClearedAt(k, n) ==
    /\ requests[k].handler = "call_tool"
    /\ requests[k].call.name = "clear_data"
    /\ "collection" \in DOMAIN requests[k].call.arguments
    /\ requests[k].call.arguments["collection"] = n
    /\ n \in DOMAIN StoreAfter(k - 1)

\* no generate_* call received after request k has recreated collection n
NotRecreatedSince(k, n) ==
    \A j \in (k + 1)..Len(requests) :
        ~(/\ requests[j].handler = "call_tool"
          /\ requests[j].call.name \in Generators
          /\ n \in DOMAIN StoreAfter(j))

\* the collections cleared and not recreated since
ClearedCollections ==
    {n \in {"users", "products", "transactions"} :
        \E k \in 1..Len(requests) : ClearedAt(k, n) /\ NotRecreatedSince(k, n)}

\* the new request names collection n in its `collection` argument
OnCollection(n) ==
    /\ New.handler = "call_tool"
    /\ "collection" \in DOMAIN New.call.arguments
    /\ New.call.arguments["collection"] = n

C11_ClearDataStep ==
    (server = "data" /\ Received) =>
        /\ \A n \in DOMAIN data_store :
              (New.call.name = "clear_data" /\ OnCollection(n)) =>
                  /\ New.reply = Returned([msg |-> "Cleared collection '{collection}'",
                                           collection |-> n])
                  /\ DOMAIN data_store' = DOMAIN data_store \ {n}
                  /\ \A c \in DOMAIN data_store' : data_store'[c] = data_store[c]
        /\ \A n \in ClearedCollections :
              /\ (New.call.name \in {"query_data", "aggregate_data", "clear_data"}
                  /\ OnCollection(n))
                 => New.reply = Returned(CollectionNotFound(n))
              /\ (New.handler = "read_resource" /\ New.call.arguments["uri"] = Uri(n))
                 => New.reply = [out |-> "return", str |-> CollectionNotFound(n)]
              /\ New.handler = "list_resources"
                 => \A r \in New.reply.resources : r.uri # Uri(n)

C11_ClearData == [][C11_ClearDataStep]_vars

\* "users" was generated and cleared, and the resource data://users was then
\* read and reported as not found
C11_Witness ==
    /\ server = "data"
    /\ Len(requests) = 3
    /\ requests[1].call.name = "generate_users"
    /\ requests[2].call.name = "clear_data"
    /\ requests[2].reply = Returned([msg |-> "Cleared collection '{collection}'",
                                     collection |-> "users"])
    /\ requests[3].handler = "read_resource"
    /\ requests[3].reply = [out |-> "return", str |-> CollectionNotFound("users")]

====
